---- MODULE Spec2Model ----
(***************************************************************************)
(* Model of the istio-pilot charm operator                                 *)
(* (src/charms/istio-pilot/src/charm.py).                                  *)
(*                                                                         *)
(* One action per hook dispatch: the charm object is constructed           *)
(* (Operator.__init__), and the handler registered for the event, if any,  *)
(* runs to completion.  The cluster is a set of labelled resources that    *)
(* only kubectl delete / kubectl apply change.  Every kubectl call may     *)
(* fail (subprocess.run(check=True) raises CalledProcessError); a Python   *)
(* exception ends the handler at the point where it is raised.             *)
(***************************************************************************)
EXTENDS Integers, Sequences, FiniteSets, TLC

\* ------------------------------------------------------------------ bounds
\* At most MaxEntries (relation, application) entries are visible at once.
MaxEntries == 3
\* At most MaxAuth declarations on the 'ingress-auth' endpoint.
MaxAuth == 3
\* At most MaxDeferred events wait in the framework's deferral queue.
MaxDeferred == 1

\* ------------------------------------------------------------------ values
None == "None"                 \* Python None, or a key a dict does not have
SelfApp == "istio-pilot"       \* self.app / self.app.name
ModelName == "istio-system"    \* self.model.name, the charm's own namespace

Rels == {1, 2, 3}               \* relation ids of the 'ingress' endpoint
\* The remote application of an ingress relation.
RemoteApp(r) == IF r % 2 = 1 THEN "app-a" ELSE "app-b"
Requesters == {"req-a", "req-b"}   \* applications on the per-unit endpoint

\* Route data an application publishes on an ingress relation.  'prefix' is
\* always sent (the v1 and v2 schemas require it); 'namespace' and 'rewrite'
\* are optional.
Routes ==
    { [prefix |-> "/a", namespace |-> None, rewrite |-> None, service |-> "svc-a"],
      [prefix |-> "/b", namespace |-> "ns-b", rewrite |-> "/", service |-> "svc-b"] }
\* What the charm's own side of a relation holds (data sent back).
SelfRoute == [prefix |-> "/self", namespace |-> None, rewrite |-> None, service |-> "self"]

\* Auth declarations: 'service' may be missing or empty.
AuthDescs ==
    { [service |-> None, port |-> 80],
      [service |-> "", port |-> 80],
      [service |-> "authn", port |-> 80] }

\* config['default-gateways'].split(',') and config['external-hostname'].
GatewayLists == { <<"gw-a">>, <<"gw-b", "gw-a">> }
Hostnames == { "", "ext.example" }

\* The answer of `kubectl get svc -l istio=ingressgateway -oyaml`, reduced to
\* items[*].status.loadBalancer.ingress[*].
SvcCore == { <<>>, << << [hostname |-> "lb.example", ip |-> "10.0.0.1"] >> >> }
SvcStates ==
    { <<>>,                                                    \* no service
      << <<>> >>,                                              \* no endpoint yet
      << << [hostname |-> None, ip |-> "10.0.0.1"] >> >>,
      << << [hostname |-> "lb.example", ip |-> None] >> >>,
      << << [hostname |-> "lb.example", ip |-> "10.0.0.1"] >> >>,
      << << [hostname |-> None, ip |-> None] >> >>,            \* an empty endpoint
      << <<>>, << [hostname |-> "lb.example", ip |-> "10.0.0.1"] >> >> }

VARIABLES
    config,      \* [gateways, hostname]: the charm configuration
    svc,         \* the ingress gateway service as the cluster reports it
    rels,        \* established relations of the 'ingress' endpoint
    ingress,     \* interfaces['ingress'].get_data(), in the dict's order
    auth,        \* interfaces['ingress-auth'].get_data().values()
    perunit,     \* requesters with a per-unit relation
    cluster,     \* the resources in the cluster
    status,      \* self.unit.status
    deferred,    \* events deferred by event.defer()
    last,        \* what the hook dispatch that just ran did (NoPass once
                 \* the environment has changed an input since)
    unit         \* what Operator.__init__ meets: leadership and the outcome
                 \* of get_interfaces

vars == <<unit, config, svc, rels, ingress, auth, perunit, cluster, status, deferred, last>>

\* ------------------------------------------------------------------ kubectl
Label(k, v) == <<k, v>>
CreatedBy == Label("app.juju.is/created-by", SelfApp)
ForLabel(req) == Label("app.juju.is/for", req)

Resource(kind, labels, body) == [kind |-> kind, labels |-> labels, body |-> body]

\* A resource owned by nobody of this charm.
Foreign == Resource("virtualservices", {Label("app.juju.is/created-by", "other")}, <<"foreign">>)

\* A label selector is a set of key=value pairs, all of which must match.
Matches(res, kinds, selector) == res.kind \in kinds /\ selector \subseteq res.labels

KubectlDeleteFirstOnly(cl, kinds, selector) ==
    LET hit == {res \in cl : Matches(res, kinds, selector)}
    IN  IF hit = {} THEN cl ELSE cl \ {CHOOSE res \in hit : TRUE}

\* kubectl delete <kinds> -l<selector>
KubectlDelete(cl, kinds, selector) ==
    {res \in cl : ~Matches(res, kinds, selector)}

Range(s) == {s[i] : i \in DOMAIN s}

\* kubectl apply -f- <document>: a document is the sequence of its fragments,
\* each fragment one resource.
KubectlApply(cl, doc) == cl \cup Range(doc)

\* kubectl apply exits non-zero when its input holds no object, and may fail
\* for any other reason (ok = FALSE); check=True turns both into
\* CalledProcessError.
ApplySucceeds(doc, ok) == ok /\ doc # <<>>

\* One subprocess call: what it was given, whether it exited with 0, and the
\* error output it left when the caller captures it (the words of stderr).
Call(op, kinds, selector, input, ok) ==
    [op |-> op, kinds |-> kinds, selector |-> selector, input |-> input, ok |-> ok,
     stderr |-> <<>>]
Failed(call, stderr) == [call EXCEPT !.ok = FALSE, !.stderr = stderr]

\* What one handler run did: the status it left, whether it called
\* event.defer(), its kubectl calls in order, the document it rendered, the
\* cluster it left and how it ended ("returned" or the exception raised).
Result(st, defer, calls, doc, cl, outcome) ==
    [status |-> st, defer |-> defer, calls |-> calls, doc |-> doc,
     cluster |-> cl, outcome |-> outcome]

Active == "active"
WaitingGateway == "waiting: Waiting for gateway address"
WaitingAuth == "waiting: Waiting for auth route connection information."

\* ------------------------------------------------------------------ locator
Truthy(v) == v \notin {None, ""}

\* addrs[0].get("hostname", addrs[0].get("ip"))
AddressOfIpFirst(items) ==
    IF items = <<>> THEN None
    ELSE IF items[1] = <<>> THEN None
    ELSE IF items[1][1].ip # None THEN items[1][1].ip
    ELSE items[1][1].hostname

AddressOf(items) ==
    IF items = <<>> THEN None
    ELSE IF items[1] = <<>> THEN None
    ELSE IF items[1][1].hostname # None THEN items[1][1].hostname
    ELSE items[1][1].ip

NeverNotReady(addr) == FALSE

\* `if not gateway_address:`
NotReady(addr) == ~Truthy(addr)

GetCall(ok) == Call("get", {"svc"}, {Label("istio", "ingressgateway")}, <<>>, ok)

\* Operator._get_gateway_address
GetGatewayAddress(cfg, items, getOk) ==
    IF Truthy(cfg.hostname)
    THEN [addr |-> cfg.hostname, calls |-> <<>>, raised |-> FALSE]
    ELSE IF ~getOk
    THEN [addr |-> None, calls |-> <<GetCall(FALSE)>>, raised |-> TRUE]
    ELSE [addr |-> AddressOf(items), calls |-> <<GetCall(TRUE)>>, raised |-> FALSE]

\* ------------------------------------------------------------------ templates
\* virtual_service.yaml.j2 rendered with the keyword arguments of one route.
RenderVirtualService(kw) ==
    Resource("virtualservices", {CreatedBy},
             <<"route", kw.gateway, kw.prefix, kw.namespace, kw.rewrite, kw.service>>)

\* virtual_service.yaml.j2 rendered for a per-unit request.
RenderPerUnit(addr, req) ==
    Resource("virtualservices", {CreatedBy, ForLabel(req)}, <<"unit", addr, req>>)

\* gateway.yaml.j2
RenderGateway(name) == Resource("gateways", {CreatedBy}, <<"gateway", name>>)

\* auth_filter.yaml.j2 and src/rbac_config.yaml
RenderAuthFilter(ns, r) ==
    Resource("envoyfilters", {CreatedBy}, <<"filter", ns, r.service>>)
RbacConfig == Resource("rbacconfigs", {CreatedBy}, <<"rbac">>)

\* ------------------------------------------------------------------ shared ingress
Entry(r, app, route) == [rel |-> r, app |-> app, route |-> route]

\* Place e behind every element whose relation id is not larger: the order
\* Python's stable sorted() gives an element that arrives last.
InsertByRelId(e, s) ==
    LET n == Cardinality({i \in DOMAIN s : s[i].rel <= e.rel})
    IN  SubSeq(s, 1, n) \o <<e>> \o SubSeq(s, n + 1, Len(s))

RECURSIVE SortedByRelId(_)
NotSorted(s) == s

\* sorted(ingress.get_data().items(), key=lambda tup: tup[0][0].id)
SortedByRelId(s) ==
    IF s = <<>> THEN <<>>
    ELSE InsertByRelId(s[Len(s)], SortedByRelId(SubSeq(s, 1, Len(s) - 1)))

IsSelfFree(e) == e.app # SelfApp
KeepAll(s) == s

\* the comprehension's `if app != self.app`
FilterSelf(s) == SelectSeq(s, IsSelfFree)

HasKey(s, r, app) == \E i \in DOMAIN s : s[i].rel = r /\ s[i].app = app

DelNothing(s, r, app) == s

\* del routes[(event.relation, event.app)], for a key the dict has
DelKey(s, r, app) ==
    LET Other(e) == ~(e.rel = r /\ e.app = app) IN SelectSeq(s, Other)

NoDefaults(gateway, route) ==
    [gateway |-> gateway, prefix |-> route.prefix, namespace |-> route.namespace,
     rewrite |-> route.rewrite, service |-> route.service]

\* get_kwargs
GetKwargs(gateway, route) ==
    [gateway |-> gateway,
     prefix |-> route.prefix,
     namespace |-> IF route.namespace = None THEN ModelName ELSE route.namespace,
     rewrite |-> IF route.rewrite = None THEN route.prefix ELSE route.rewrite,
     service |-> route.service]

SharedKinds == {"virtualservices", "destinationrules"}
SharedSelector == {CreatedBy}

SharedNotDeleted(cl) == cl

\* the delete call of handle_ingress, when it succeeds
SharedDeleted(cl) == KubectlDelete(cl, SharedKinds, SharedSelector)

\* The routes dict of handle_ingress before the relation-broken exclusion.
Routes0 == IF rels # {} THEN FilterSelf(SortedByRelId(ingress)) ELSE <<>>

\* Events: the handler they are bound to and what the handler reads of them.
Event(h, broken, r, app, req) ==
    [h |-> h, broken |-> broken, rel |-> r, app |-> app, req |-> req]
NotBroken == Event("ingress", FALSE, 0, None, None)
BrokenEvent(r) == Event("ingress", TRUE, r, RemoteApp(r), None)
ReadyEvent(req) == Event("per_unit", FALSE, 0, None, req)

\* Operator.handle_ingress
HandleIngress(ev, getOk, delOk, applyOk) ==
    LET g == GetGatewayAddress(config, svc, getOk) IN
    IF g.raised
    THEN Result(Active, FALSE, g.calls, <<>>, cluster, "CalledProcessError")
    ELSE IF NotReady(g.addr)
    THEN Result(WaitingGateway, TRUE, g.calls, <<>>, cluster, "returned")
    ELSE IF ev.broken /\ ~HasKey(Routes0, ev.rel, ev.app)
    THEN Result(Active, FALSE, g.calls, <<>>, cluster, "KeyError")
    ELSE
      LET routes == IF ev.broken THEN DelKey(Routes0, ev.rel, ev.app) ELSE Routes0
          gateway == config.gateways[1]
          doc == [i \in DOMAIN routes |->
                    RenderVirtualService(GetKwargs(gateway, routes[i].route))]
          del == Call("delete", SharedKinds, SharedSelector, <<>>, delOk)
          deleted == SharedDeleted(cluster)
      IN  IF ~delOk
          THEN Result(Active, FALSE, g.calls \o <<del>>, doc, cluster,
                      "CalledProcessError")
          ELSE IF routes = <<>>
          THEN Result(Active, FALSE, g.calls \o <<del>>, doc, deleted, "returned")
          ELSE IF ~ApplySucceeds(doc, applyOk)
          THEN Result(Active, FALSE,
                      g.calls \o <<del, Call("apply", {}, {}, doc, FALSE)>>,
                      doc, deleted, "CalledProcessError")
          ELSE Result(Active, FALSE,
                      g.calls \o <<del, Call("apply", {}, {}, doc, TRUE)>>,
                      doc, KubectlApply(deleted, doc), "returned")

\* ------------------------------------------------------------------ auth
AuthKinds == {"envoyfilters", "rbacconfigs"}
AuthSelector == {CreatedBy}

HasService(ar) == Truthy(ar.service)
AnyHasService(descs) == descs = <<>> \/ \E i \in DOMAIN descs : HasService(descs[i])

\* all(ar.get("service") for ar in auth_routes)
AllHaveService(descs) == \A i \in DOMAIN descs : HasService(descs[i])

\* Operator.handle_ingress_auth
HandleIngressAuth(delOk, applyOk) ==
    IF ~AllHaveService(auth)
    THEN Result(WaitingAuth, FALSE, <<>>, <<>>, cluster, "returned")
    ELSE
      LET rbac == IF auth # <<>> THEN <<RbacConfig>> ELSE <<>>
          filters == [i \in DOMAIN auth |-> RenderAuthFilter(ModelName, auth[i])]
          doc == rbac \o filters
          del == Call("delete", AuthKinds, AuthSelector, <<>>, delOk)
          deleted == KubectlDelete(cluster, AuthKinds, AuthSelector)
      IN  IF ~delOk
          THEN Result(Active, FALSE, <<del>>, doc, cluster, "CalledProcessError")
          ELSE IF ~ApplySucceeds(doc, applyOk)
          THEN Result(Active, FALSE, <<del, Call("apply", {}, {}, doc, FALSE)>>,
                      doc, deleted, "CalledProcessError")
          ELSE Result(Active, FALSE, <<del, Call("apply", {}, {}, doc, TRUE)>>,
                      doc, KubectlApply(deleted, doc), "returned")

\* ------------------------------------------------------------------ per unit
PerUnitSelector(req) == {CreatedBy, ForLabel(req)}

\* Operator.handle_ingress_per_unit
HandleIngressPerUnit(ev, getOk, delOk, applyOk) ==
    LET g == GetGatewayAddress(config, svc, getOk) IN
    IF g.raised
    THEN Result(Active, FALSE, g.calls, <<>>, cluster, "CalledProcessError")
    ELSE IF NotReady(g.addr)
    THEN Result(WaitingGateway, TRUE, g.calls, <<>>, cluster, "returned")
    ELSE
      LET doc == <<RenderPerUnit(g.addr, ev.req)>>
          del == Call("delete", SharedKinds, PerUnitSelector(ev.req), <<>>, delOk)
          deleted == KubectlDelete(cluster, SharedKinds, PerUnitSelector(ev.req))
      IN  IF ~delOk
          THEN Result(Active, FALSE, g.calls \o <<del>>, doc, cluster,
                      "CalledProcessError")
          ELSE IF ~ApplySucceeds(doc, applyOk)
          THEN Result(Active, FALSE,
                      g.calls \o <<del, Call("apply", {}, {}, doc, FALSE)>>,
                      doc, deleted, "CalledProcessError")
          ELSE Result(Active, FALSE,
                      g.calls \o <<del, Call("apply", {}, {}, doc, TRUE)>>,
                      doc, KubectlApply(deleted, doc), "returned")

HandleIngressPerUnitBrokenRaises(req, delOk) ==
    LET del == Call("delete", SharedKinds, PerUnitSelector(req), <<>>, delOk)
    IN  IF ~delOk
        THEN Result(Active, FALSE, <<del>>, <<>>, cluster, "CalledProcessError")
        ELSE Result(Active, FALSE, <<del>>, <<>>,
                    KubectlDelete(cluster, SharedKinds, PerUnitSelector(req)),
                    "returned")

\* Operator.handle_ingress_per_unit_broken
HandleIngressPerUnitBroken(req, delOk) ==
    LET del == Call("delete", SharedKinds, PerUnitSelector(req), <<>>, delOk)
    IN  IF ~delOk
        THEN Result(Active, FALSE, <<del>>, <<>>, cluster, "returned")
        ELSE Result(Active, FALSE, <<del>>, <<>>,
                    KubectlDelete(cluster, SharedKinds, PerUnitSelector(req)),
                    "returned")

\* ------------------------------------------------------------------ gateways
GatewayKinds == {"gateways"}
GatewaySelector == {CreatedBy}

HandleDefaultGatewaysSwallow(delOk, applyOk) ==
    LET doc == [i \in DOMAIN config.gateways |-> RenderGateway(config.gateways[i])]
        del == Call("delete", GatewayKinds, GatewaySelector, <<>>, delOk)
        deleted == KubectlDelete(cluster, GatewayKinds, GatewaySelector)
    IN  IF ~delOk
        THEN Result(Active, FALSE, <<del>>, doc, cluster, "CalledProcessError")
        ELSE IF ~ApplySucceeds(doc, applyOk)
        THEN Result(Active, FALSE, <<del, Call("apply", {}, {}, doc, FALSE)>>,
                    doc, deleted, "returned")
        ELSE Result(Active, FALSE, <<del, Call("apply", {}, {}, doc, TRUE)>>,
                    doc, KubectlApply(deleted, doc), "returned")

\* Operator.handle_default_gateways
HandleDefaultGateways(delOk, applyOk) ==
    LET doc == [i \in DOMAIN config.gateways |-> RenderGateway(config.gateways[i])]
        del == Call("delete", GatewayKinds, GatewaySelector, <<>>, delOk)
        deleted == KubectlDelete(cluster, GatewayKinds, GatewaySelector)
    IN  IF ~delOk
        THEN Result(Active, FALSE, <<del>>, doc, cluster, "CalledProcessError")
        ELSE IF ~ApplySucceeds(doc, applyOk)
        THEN Result(Active, FALSE, <<del, Call("apply", {}, {}, doc, FALSE)>>,
                    doc, deleted, "CalledProcessError")
        ELSE Result(Active, FALSE, <<del, Call("apply", {}, {}, doc, TRUE)>>,
                    doc, KubectlApply(deleted, doc), "returned")

\* ------------------------------------------------------------------ install and remove
\* What `istioctl manifest generate` prints and `istioctl install` installs:
\* the mesh control plane in the charm's namespace.
Manifests == <<Resource("deployments", {Label("app", "istiod")}, <<"istiod", ModelName>>)>>

IstioctlCall(op, ok) == Call(op, {}, {}, <<>>, ok)

\* Operator.install
Install(ok) ==
    IF ~ok
    THEN Result(Active, FALSE, <<IstioctlCall("istioctl install", FALSE)>>, <<>>,
                cluster, "CalledProcessError")
    ELSE Result(Active, FALSE, <<IstioctlCall("istioctl install", TRUE)>>, <<>>,
                KubectlApply(cluster, Manifests), "returned")

\* kubectl resolves a resource's singular name to the resource.
RemoveKinds == {"virtualservices", "destinationrules", "gateways", "envoyfilters",
                "rbacconfigs"}
RemoveSelector == {CreatedBy}

\* kubectl delete --ignore-not-found -f-
KubectlDeleteObjects(cl, doc) == cl \ Range(doc)

\* The error outputs a failed delete may leave.
Stderrs ==
    { <<>>,
      <<"error:", "forbidden">>,
      <<"(Unauthorized)">>,
      <<"error:", "You", "must", "be", "logged", "in", "(Unauthorized)">> }

StartsWith(word, output) == output # <<>> /\ output[1] = word

\* b"(Unauthorized)" in e.stderr
Contains(word, output) == \E i \in DOMAIN output : output[i] = word

\* Operator.remove; fail names the call that fails, if any, and stderr its
\* error output.
Remove(fail, stderr) ==
    LET gen == IstioctlCall("istioctl manifest generate", fail # "generate")
        del1 == Call("delete", RemoveKinds, RemoveSelector, <<>>, TRUE)
        del2 == Call("delete", {}, {}, Manifests, TRUE)
        deleted1 == KubectlDelete(cluster, RemoveKinds, RemoveSelector)
        Except(calls, cl) ==
            IF Contains("(Unauthorized)", stderr)
            THEN Result(Active, FALSE, calls, <<>>, cl, "returned")
            ELSE Result(Active, FALSE, calls, <<>>, cl, "CalledProcessError")
    IN  IF fail = "generate"
        THEN Result(Active, FALSE, <<gen>>, <<>>, cluster, "CalledProcessError")
        ELSE IF fail = "delete"
        THEN Except(<<gen, Failed(del1, stderr)>>, cluster)
        ELSE IF fail = "delete -f"
        THEN Except(<<gen, del1, Failed(del2, stderr)>>, deleted1)
        ELSE Result(Active, FALSE, <<gen, del1, del2>>, <<>>,
                    KubectlDeleteObjects(deleted1, Manifests), "returned")

\* ------------------------------------------------------------------ dispatch
\* The unit as Operator.__init__ finds it: is_leader() and what
\* get_interfaces does (returns, or raises an error with a reason).
UnitState(leader, error, reason) == [leader |-> leader, error |-> error, reason |-> reason]
Leader == UnitState(TRUE, "none", "")
InterfaceErrors ==
    { [error |-> "NoVersionsListed", reason |-> "ingress: no versions listed"],
      [error |-> "NoVersionsListed", reason |-> "ingress-auth: no versions listed"],
      [error |-> "NoCompatibleVersions", reason |-> "ingress: no compatible versions"] }
UnitStates ==
    {Leader, UnitState(FALSE, "none", "")}
        \cup {UnitState(TRUE, e.error, e.reason) : e \in InterfaceErrors}

WaitingLeadership == "waiting: Waiting for leadership"
Waiting(reason) == "waiting: " \o reason
Blocked(reason) == "blocked: " \o reason

ConstructAsLeader(u) ==
    IF u.error = "NoVersionsListed"
    THEN [status |-> Waiting(u.reason), bound |-> FALSE]
    ELSE IF u.error = "NoCompatibleVersions"
    THEN [status |-> Blocked(u.reason), bound |-> FALSE]
    ELSE [status |-> Active, bound |-> TRUE]

ConstructPastErrors(u) ==
    IF ~u.leader THEN [status |-> WaitingLeadership, bound |-> FALSE]
    ELSE IF u.error = "NoVersionsListed"
    THEN [status |-> Waiting(u.reason), bound |-> TRUE]
    ELSE IF u.error = "NoCompatibleVersions"
    THEN [status |-> Blocked(u.reason), bound |-> TRUE]
    ELSE [status |-> Active, bound |-> TRUE]

\* Operator.__init__: the status it leaves and whether it gets to the
\* framework.observe calls.
Construct(u) ==
    IF ~u.leader THEN [status |-> WaitingLeadership, bound |-> FALSE]
    ELSE IF u.error = "NoVersionsListed"
    THEN [status |-> Waiting(u.reason), bound |-> FALSE]
    ELSE IF u.error = "NoCompatibleVersions"
    THEN [status |-> Blocked(u.reason), bound |-> FALSE]
    ELSE [status |-> Active, bound |-> TRUE]

\* The framework.observe calls of Operator.__init__: event -> handler.
Observers ==
    [e \in {"install", "remove", "config_changed", "istio-pilot.relation_changed",
            "ingress.relation_changed", "ingress.relation_departed",
            "ingress.relation_broken", "ingress-auth.relation_changed",
            "ingress-auth.relation_departed", "ingress_per_unit.ready",
            "ingress_per_unit.failed"} |->
       CASE e = "install" -> "install"
         [] e = "remove" -> "remove"
         [] e = "config_changed" -> "handle_default_gateways"
         [] e = "istio-pilot.relation_changed" -> "send_info"
         [] e \in {"ingress.relation_changed", "ingress.relation_departed",
                   "ingress.relation_broken"} -> "handle_ingress"
         [] e \in {"ingress-auth.relation_changed",
                   "ingress-auth.relation_departed"} -> "handle_ingress_auth"
         [] e = "ingress_per_unit.ready" -> "handle_ingress_per_unit"
         [] e = "ingress_per_unit.failed" -> "handle_ingress_per_unit_failed"]

\* An event reaches a handler when __init__ has got to the observe calls
\* and one of them names the event.
Observed(e) == Construct(unit).bound /\ e \in DOMAIN Observers

NoEvent == Event("none", FALSE, 0, None, None)
Pass(handler, ev, res) ==
    [handler |-> handler, ev |-> ev, status |-> res.status, defer |-> res.defer,
     calls |-> res.calls, doc |-> res.doc, outcome |-> res.outcome]
NoPass == Pass("none", NoEvent, Result(Active, FALSE, <<>>, <<>>, {}, "returned"))

\* A deferral needs room in the queue.
CanDefer(ev) == ev \in deferred \/ Cardinality(deferred) < MaxDeferred

\* The effects of one handler run on the charm's and the cluster's state.
Ran(handler, ev, res) ==
    /\ res.defer => CanDefer(ev)
    /\ cluster' = res.cluster
    /\ status' = res.status
    /\ last' = Pass(handler, ev, res)
    /\ deferred' = IF res.defer THEN deferred \cup {ev} ELSE deferred

\* ---- the environment
SetConfig(c) ==
    /\ c # config
    /\ config' = c
    /\ last' = NoPass
    /\ UNCHANGED <<unit, svc, rels, ingress, auth, perunit, cluster, status, deferred>>

SetSvc(s) ==
    /\ s # svc
    /\ svc' = s
    /\ last' = NoPass
    /\ UNCHANGED <<unit, config, rels, ingress, auth, perunit, cluster, status, deferred>>

KeyIndex(s, r, app) == CHOOSE i \in DOMAIN s : s[i].rel = r /\ s[i].app = app

\* An application joins and writes its side of a relation: a new key goes to
\* the end of the dict, a known key keeps its place.
Put(s, r, app, route) ==
    IF HasKey(s, r, app)
    THEN [s EXCEPT ![KeyIndex(s, r, app)] = Entry(r, app, route)]
    ELSE Append(s, Entry(r, app, route))

Publish(r, route) ==
    /\ HasKey(ingress, r, RemoteApp(r)) \/ Len(ingress) < MaxEntries
    /\ Put(ingress, r, RemoteApp(r), route) # ingress
    /\ ingress' = Put(ingress, r, RemoteApp(r), route)
    /\ rels' = rels \cup {r}
    /\ last' = NoPass
    /\ UNCHANGED <<unit, config, svc, auth, perunit, cluster, status, deferred>>

RemoveAt(s, i) == SubSeq(s, 1, i - 1) \o SubSeq(s, i + 1, Len(s))

AuthDeclare(d) ==
    /\ Len(auth) < MaxAuth
    /\ auth' = Append(auth, d)
    /\ last' = NoPass
    /\ UNCHANGED <<unit, config, svc, rels, ingress, perunit, cluster, status, deferred>>

AuthUpdate(i, d) ==
    /\ i \in DOMAIN auth
    /\ auth[i] # d
    /\ auth' = [auth EXCEPT ![i] = d]
    /\ last' = NoPass
    /\ UNCHANGED <<unit, config, svc, rels, ingress, perunit, cluster, status, deferred>>

AuthRetract(i) ==
    /\ i \in DOMAIN auth
    /\ auth' = RemoveAt(auth, i)
    /\ last' = NoPass
    /\ UNCHANGED <<unit, config, svc, rels, ingress, perunit, cluster, status, deferred>>

\* ---- hook dispatches
\* Which kubectl call of a handler run fails, if any.
Failures == {"none", "get", "delete", "apply"}

\* config-changed
ConfigChanged ==
    /\ Observed("config_changed")
    /\ \E f \in Failures \ {"get"} :
          Ran("handle_default_gateways", NoEvent,
              HandleDefaultGateways(f # "delete", f # "apply"))
    /\ UNCHANGED <<unit, config, svc, rels, ingress, auth, perunit>>

\* ingress relation-changed and relation-departed
IngressChangedWith(f) ==
    /\ Observed("ingress.relation_changed") /\ Observed("ingress.relation_departed")
    /\ Ran("handle_ingress", NotBroken,
           HandleIngress(NotBroken, f # "get", f # "delete", f # "apply"))
    /\ UNCHANGED <<unit, config, svc, rels, ingress, auth, perunit>>

IngressChanged == \E f \in Failures : IngressChangedWith(f)

\* ingress relation-broken: the handler still sees the relation and its
\* data; both are gone once the hook has run.
IngressBrokenWith(r, f) ==
    /\ r \in rels
    /\ Observed("ingress.relation_broken")
    /\ Ran("handle_ingress", BrokenEvent(r),
           HandleIngress(BrokenEvent(r), f # "get", f # "delete", f # "apply"))
    /\ rels' = rels \ {r}
    /\ LET Stays(e) == e.rel # r IN ingress' = SelectSeq(ingress, Stays)
    /\ UNCHANGED <<unit, config, svc, auth, perunit>>

IngressBroken(r) == \E f \in Failures : IngressBrokenWith(r, f)

\* ingress-auth relation-changed and relation-departed
AuthChanged ==
    /\ Observed("ingress-auth.relation_changed")
    /\ Observed("ingress-auth.relation_departed")
    /\ \E f \in Failures \ {"get"} :
          Ran("handle_ingress_auth", NoEvent,
              HandleIngressAuth(f # "delete", f # "apply"))
    /\ UNCHANGED <<unit, config, svc, rels, ingress, auth, perunit>>

\* the per-unit library's ready event for a requester's relation
PerUnitReadyWith(req, f) ==
    /\ Observed("ingress_per_unit.ready")
    /\ Ran("handle_ingress_per_unit", ReadyEvent(req),
           HandleIngressPerUnit(ReadyEvent(req), f # "get", f # "delete", f # "apply"))
    /\ perunit' = perunit \cup {req}
    /\ UNCHANGED <<unit, config, svc, rels, ingress, auth>>

PerUnitReady(req) == \E f \in Failures : PerUnitReadyWith(req, f)

BrokenUnitEvent(req) == Event("per_unit_broken", TRUE, 0, None, req)

\* a per-unit relation is broken: the teardown handler runs only if
\* __init__ has bound it to the event
PerUnitBroken(req) ==
    /\ req \in perunit
    /\ \E delOk \in BOOLEAN :
          IF Observed("ingress_per_unit.broken")
          THEN Ran("handle_ingress_per_unit_broken", BrokenUnitEvent(req),
                   HandleIngressPerUnitBroken(req, delOk))
          ELSE Ran("none", BrokenUnitEvent(req),
                   Result(Construct(unit).status, FALSE, <<>>, <<>>, cluster,
                          "returned"))
    /\ perunit' = perunit \ {req}
    /\ UNCHANGED <<unit, config, svc, rels, ingress, auth>>

\* install
InstallHook ==
    /\ Observed("install")
    /\ \E ok \in BOOLEAN : Ran("install", NoEvent, Install(ok))
    /\ UNCHANGED <<unit, config, svc, rels, ingress, auth, perunit>>

RemoveFailures == {"none", "generate", "delete", "delete -f"}

\* remove
RemoveHook ==
    /\ Observed("remove")
    /\ \E fail \in RemoveFailures, stderr \in Stderrs :
          /\ fail \in {"none", "generate"} => stderr = <<>>
          /\ Ran("remove", NoEvent, Remove(fail, stderr))
    /\ UNCHANGED <<unit, config, svc, rels, ingress, auth, perunit>>

\* Leadership moves, or the relations' version negotiation changes.
SetUnit(u) ==
    /\ u # unit
    /\ unit' = u
    /\ last' = NoPass
    /\ UNCHANGED <<config, svc, rels, ingress, auth, perunit, cluster, status, deferred>>

\* Every event the charm can be dispatched for.
Events == DOMAIN Observers \cup {"ingress_per_unit.broken"}

\* A dispatch in which __init__ returns before the observe calls: the charm
\* is constructed and no handler is there for the event.
Inert(e) ==
    /\ ~Construct(unit).bound
    /\ status' = Construct(unit).status
    /\ last' = Pass("none", Event(e, FALSE, 0, None, None),
                    Result(Construct(unit).status, FALSE, <<>>, <<>>, cluster,
                           "returned"))
    /\ UNCHANGED <<unit, config, svc, rels, ingress, auth, perunit, cluster, deferred>>

\* handle_ingress_per_unit_broken called with the relation-broken event of a
\* requester's relation.  No observe call of __init__ names the handler, so
\* no hook dispatch gets here; the action is the handler itself.
TeardownPass(req) ==
    /\ req \in perunit
    /\ Construct(unit).bound
    /\ \E delOk \in BOOLEAN :
          Ran("handle_ingress_per_unit_broken", BrokenUnitEvent(req),
              HandleIngressPerUnitBroken(req, delOk))
    /\ perunit' = perunit \ {req}
    /\ UNCHANGED <<unit, config, svc, rels, ingress, auth>>

\* the framework re-emits a deferred event to the handler that deferred it;
\* the event leaves the queue unless the handler defers again or raises
ReemitWith(ev, f) ==
    /\ ev \in deferred
    /\ Construct(unit).bound
    /\ LET res == IF ev.h = "ingress"
                  THEN HandleIngress(ev, f # "get", f # "delete", f # "apply")
                  ELSE HandleIngressPerUnit(ev, f # "get", f # "delete", f # "apply")
       IN  /\ cluster' = res.cluster
           /\ status' = res.status
           /\ last' = Pass(IF ev.h = "ingress" THEN "handle_ingress"
                           ELSE "handle_ingress_per_unit", ev, res)
           /\ deferred' = IF res.defer \/ res.outcome # "returned"
                          THEN deferred ELSE deferred \ {ev}
    /\ UNCHANGED <<unit, config, svc, rels, ingress, auth, perunit>>

Reemit(ev) == \E f \in Failures : ReemitWith(ev, f)

\* ------------------------------------------------------------------ specifications
GatewayConfigs == [gateways : GatewayLists, hostname : {""}]
Configs == [gateways : GatewayLists, hostname : Hostnames]

\* get_data() snapshots: sequences of entries with distinct keys.
Keys(s) == {<<s[i].rel, s[i].app>> : i \in DOMAIN s}
EntryValues ==
    {Entry(r, RemoteApp(r), route) : r \in Rels, route \in Routes}
        \cup {Entry(r, SelfApp, SelfRoute) : r \in Rels}
RECURSIVE SnapshotsOfLen(_)
SnapshotsOfLen(n) ==
    IF n = 0 THEN {<<>>}
    ELSE {Append(s, e) : s \in SnapshotsOfLen(n - 1), e \in EntryValues}
Snapshots ==
    {s \in UNION {SnapshotsOfLen(n) : n \in 0..MaxEntries} :
        Cardinality(Keys(s)) = Len(s)}

\* Two relations declare prefix /a (relation id 3) and /b (relation id 1).
RouteA == [prefix |-> "/a", namespace |-> None, rewrite |-> None, service |-> "svc-a"]
RouteB == [prefix |-> "/b", namespace |-> "ns-b", rewrite |-> "/", service |-> "svc-b"]
Scenario == <<Entry(3, RemoteApp(3), RouteA), Entry(1, RemoteApp(1), RouteB)>>

Provisioned == << << [hostname |-> "lb.example", ip |-> "10.0.0.1"] >> >>

InitRest ==
    /\ unit = Leader
    /\ cluster = {Foreign}
    /\ status = Active
    /\ deferred = {}
    /\ last = NoPass

\* The whole charm: every hook, over relation data that only relation-broken
\* changes.
Init ==
    /\ config = [gateways |-> <<"gw-a">>, hostname |-> ""]
    /\ \/ rels = {} /\ ingress = <<>>
       \/ rels = {1, 3} /\ ingress = Scenario
    /\ auth \in {<<[service |-> "authn", port |-> 80]>>,
                  <<[service |-> "authn", port |-> 80], [service |-> None, port |-> 80]>>}
    /\ perunit = {}
    /\ svc = <<>>
    /\ InitRest

Next ==
    \/ \E s \in SvcCore : SetSvc(s)
    \/ ConfigChanged
    \/ IngressChanged
    \/ \E r \in Rels : IngressBroken(r)
    \/ AuthChanged
    \/ \E req \in Requesters : PerUnitReady(req)
    \/ \E req \in Requesters : PerUnitBroken(req)
    \/ \E ev \in deferred : Reemit(ev)

Spec == Init /\ [][Next]_vars

\* The shared ingress routes and the default gateways, with the gateway
\* address available, while relations come, publish and break.
InitIngress ==
    /\ config = [gateways |-> <<"gw-a">>, hostname |-> ""]
    /\ rels = {}
    /\ ingress = <<>>
    /\ auth = <<>>
    /\ perunit = {}
    /\ svc = Provisioned
    /\ InitRest

NextIngress ==
    \/ \E c \in GatewayConfigs : SetConfig(c)
    \/ \E r \in Rels, route \in Routes : Publish(r, route)
    \/ ConfigChanged
    \/ IngressChanged
    \/ \E r \in Rels : IngressBroken(r)

SpecIngress == InitIngress /\ [][NextIngress]_vars

\* The auth routes while declarations come, change and go.
NextAuth ==
    \/ \E d \in AuthDescs : AuthDeclare(d)
    \/ \E i \in 1..MaxAuth, d \in AuthDescs : AuthUpdate(i, d)
    \/ \E i \in 1..MaxAuth : AuthRetract(i)
    \/ AuthChanged

SpecAuth == InitIngress /\ [][NextAuth]_vars

\* One shared-ingress pass over every get_data() snapshot.
InitAgg ==
    /\ config \in GatewayConfigs
    /\ ingress \in Snapshots
    /\ rels \in {{k[1] : k \in Keys(ingress)}} \cup
                 {{k[1] : k \in Keys(ingress)} \cup {r} : r \in Rels}
    /\ auth = <<>>
    /\ perunit = {}
    /\ svc \in SvcCore
    /\ unit = Leader
    /\ cluster = {Foreign}
    /\ status = Active
    /\ deferred = {}
    /\ last = NoPass

NextAgg ==
    \/ IngressChanged
    \/ \E r \in Rels : IngressBroken(r)

SpecAgg == InitAgg /\ [][NextAgg]_vars

\* The charm's life on a unit whose leadership and relation versions
\* change: install, the passes that fill the cluster, remove.
InitUnit ==
    /\ config = [gateways |-> <<"gw-a">>, hostname |-> ""]
    /\ rels = {}
    /\ ingress = <<>>
    /\ auth = <<[service |-> "authn", port |-> 80]>>
    /\ perunit = {}
    /\ svc = Provisioned
    /\ InitRest

NextUnit ==
    \/ \E u \in UnitStates : SetUnit(u)
    \/ InstallHook
    \/ RemoveHook
    \/ ConfigChanged
    \/ AuthChanged
    \/ \E req \in Requesters : PerUnitReady(req)
    \/ \E e \in Events : Inert(e)

SpecUnit == InitUnit /\ [][NextUnit]_vars

\* The gateway locator over every configuration and every answer of the
\* cluster, read through the passes that call it.
InitLocate ==
    /\ config \in Configs
    /\ svc \in SvcStates
    /\ rels = {}
    /\ ingress = <<>>
    /\ auth = <<>>
    /\ perunit = {}
    /\ InitRest

NextLocate ==
    \/ \E c \in Configs : SetConfig(c)
    \/ \E s \in SvcStates : SetSvc(s)
    \/ IngressChanged
    \/ \E req \in Requesters : PerUnitReady(req)

SpecLocate == InitLocate /\ [][NextLocate]_vars

\* Deferral and re-delivery while every cluster call succeeds: the framework
\* re-emits a deferred event at the next hook, and hooks keep coming
\* (update-status at the least), so a deferred event that can be re-emitted
\* is re-emitted.
DeferrableEvents ==
    {NotBroken} \cup {BrokenEvent(r) : r \in Rels} \cup {ReadyEvent(req) : req \in Requesters}

NextLive ==
    \/ \E s \in SvcCore : SetSvc(s)
    \/ IngressChangedWith("none")
    \/ \E r \in Rels : IngressBrokenWith(r, "none")
    \/ \E req \in Requesters : PerUnitReadyWith(req, "none")
    \/ \E ev \in DeferrableEvents : ReemitWith(ev, "none")

SpecLive ==
    /\ Init
    /\ [][NextLive]_vars
    /\ \A ev \in DeferrableEvents : WF_vars(ReemitWith(ev, "none"))

\* The per-unit teardown handler applied to the states the per-unit passes
\* leave.
NextTeardown ==
    \/ \E s \in SvcCore : SetSvc(s)
    \/ \E req \in Requesters : PerUnitReady(req)
    \/ \E req \in Requesters : TeardownPass(req)

SpecTeardown == InitIngress /\ [][NextTeardown]_vars

\* ------------------------------------------------------------------ properties
\* What the properties read of a pass p (the value of last after a dispatch).
MutatingOps == {"delete", "apply"}
CallsOf(p, op) == {i \in DOMAIN p.calls : p.calls[i].op = op}
GetRaised(p) == p.calls # <<>> /\ p.calls[1].op = "get" /\ ~p.calls[1].ok
ReachedDelete(p) == CallsOf(p, "delete") # {}

\* The gateway address as configuration and cluster give it.
Available ==
    \/ config.hostname \notin {None, ""}
    \/ /\ svc # <<>>
       /\ svc[1] # <<>>
       /\ svc[1][1].hostname # None \/ svc[1][1].ip # None

\* The entries of the raw relation data a shared-ingress pass for event ev
\* is to route: not the charm's own, not the broken pair's.
Remaining(ev) ==
    {i \in DOMAIN ingress :
        /\ ingress[i].app # SelfApp
        /\ ~(ev.broken /\ ingress[i].rel = ev.rel /\ ingress[i].app = ev.app)}
Fragment(i) == RenderVirtualService(GetKwargs(config.gateways[1], ingress[i].route))
OwnedRoutes(cl) ==
    {res \in cl : res.kind \in {"virtualservices", "destinationrules"}
                  /\ CreatedBy \in res.labels}

\* C1 (gateway gating): when the locator returns no address, a shared-ingress
\* or per-unit pass issues no delete and no apply call, leaves the cluster as
\* it was, sets the status to waiting and defers its event.
GatewayGating ==
    [][(/\ last'.handler \in {"handle_ingress", "handle_ingress_per_unit"}
        /\ ~Available
        /\ ~GetRaised(last'))
       => (/\ \A i \in DOMAIN last'.calls : last'.calls[i].op \notin MutatingOps
           /\ cluster' = cluster
           /\ status' = WaitingGateway
           /\ last'.outcome = "returned"
           /\ last'.defer
           /\ last'.ev \in deferred')]_vars

\* A per-unit pass has deferred while the cluster holds resources of this
\* charm, and has left them alone.
WitnessGatewayGating ==
    /\ last.handler = "handle_ingress_per_unit"
    /\ last.defer
    /\ status = WaitingGateway
    /\ last.ev \in deferred
    /\ \E res \in cluster : ForLabel(last.ev.req) \in res.labels

\* C2 (exclusion correctness): a shared-ingress pass for a relation-broken
\* event, with the gateway available and the broken pair's declaration still
\* in the raw data, renders and applies one fragment for every other non-self
\* declaration and none for the broken pair.
ExclusionCorrectness ==
    [][(/\ last'.handler = "handle_ingress"
        /\ last'.ev.broken
        /\ Available
        /\ ~GetRaised(last')
        /\ \E i \in DOMAIN ingress :
              ingress[i].rel = last'.ev.rel /\ ingress[i].app = last'.ev.app)
       => (/\ last'.outcome # "KeyError"
           /\ \A f \in Range(last'.doc) \cup {Fragment(i) : i \in Remaining(last'.ev)} :
                 Cardinality({j \in DOMAIN last'.doc : last'.doc[j] = f})
                   = Cardinality({i \in Remaining(last'.ev) : Fragment(i) = f})
           /\ \A k \in CallsOf(last', "apply") : last'.calls[k].input = last'.doc
           /\ (last'.outcome = "returned" /\ last'.doc # <<>>)
                 => \E k \in CallsOf(last', "apply") :
                       last'.calls[k].ok /\ Range(last'.doc) \subseteq cluster')]_vars

\* Breaking the /a relation (id 3) has left only /b in the applied output.
WitnessExclusionCorrectness ==
    /\ last.handler = "handle_ingress"
    /\ last.ev = BrokenEvent(3)
    /\ last.outcome = "returned"
    /\ ingress = <<Entry(1, RemoteApp(1), RouteB)>>
    /\ last.doc = <<RenderVirtualService(GetKwargs(config.gateways[1], RouteB))>>
    /\ CallsOf(last, "apply") # {}

\* C3 (auth all-or-nothing): an auth pass with a declaration whose service is
\* missing or empty renders nothing, issues no delete and no apply call and
\* reports waiting; otherwise it renders one filter fragment per declaration
\* and, after the delete, hands the document to apply.
AuthAllOrNothing ==
    last.handler = "handle_ingress_auth" =>
      IF \E i \in DOMAIN auth : auth[i].service \in {None, ""}
      THEN /\ last.doc = <<>>
           /\ last.calls = <<>>
           /\ status = WaitingAuth
           /\ ~last.defer
           /\ last.outcome = "returned"
      ELSE /\ Cardinality({j \in DOMAIN last.doc : last.doc[j].kind = "envoyfilters"})
                = Len(auth)
           /\ \A i \in DOMAIN auth :
                 \E j \in DOMAIN last.doc :
                    last.doc[j] = RenderAuthFilter(ModelName, auth[i])
           /\ CallsOf(last, "delete") # {}
           /\ (\A k \in CallsOf(last, "delete") : last.calls[k].ok)
                 => \E k \in CallsOf(last, "apply") : last.calls[k].input = last.doc
           /\ last.outcome = "returned" => Range(last.doc) \subseteq cluster

\* Three declarations, exactly one without a service: the pass waits.
WitnessAuthAllOrNothing ==
    /\ last.handler = "handle_ingress_auth"
    /\ Len(auth) = 3
    /\ Cardinality({i \in DOMAIN auth : auth[i].service = None}) = 1
    /\ Cardinality({i \in DOMAIN auth : auth[i].service = "authn"}) = 2
    /\ status = WaitingAuth
    /\ \E res \in cluster : res.kind = "envoyfilters"

\* C4 (no orphans after replace): when a shared-ingress pass completes, the
\* route resources carrying created-by=<this-app> are exactly the fragments
\* rendered from the declarations the pass is to route, and every resource
\* the pass has deleted carried that label.
NoOrphans ==
    [][(/\ last'.handler = "handle_ingress"
        /\ last'.outcome = "returned"
        /\ ~last'.defer)
       => (/\ OwnedRoutes(cluster') = {Fragment(i) : i \in Remaining(last'.ev)}
           /\ \A res \in cluster \ cluster' : CreatedBy \in res.labels)]_vars

\* A pass for a broken relation has completed and routes are applied.
WitnessNoOrphans ==
    /\ last.handler = "handle_ingress"
    /\ last.ev.broken
    /\ last.outcome = "returned"
    /\ last.doc # <<>>
    /\ \A k \in DOMAIN last.calls : last.calls[k].ok
    /\ Foreign \in cluster

\* The resources of the reconciliation unit of pass p.
HasFor(res) == \E l \in res.labels : l[1] = "app.juju.is/for"
OwnedBy(res, p) ==
    /\ CreatedBy \in res.labels
    /\ CASE p.handler = "handle_ingress" ->
              res.kind \in {"virtualservices", "destinationrules"} /\ ~HasFor(res)
         [] p.handler = "handle_ingress_per_unit" ->
              res.kind \in {"virtualservices", "destinationrules"}
                /\ ForLabel(p.ev.req) \in res.labels
         [] p.handler = "handle_ingress_auth" ->
              res.kind \in {"envoyfilters", "rbacconfigs"}
         [] p.handler = "handle_default_gateways" -> res.kind = "gateways"
         [] OTHER -> FALSE

\* C5 (route-kind isolation): a pass leaves the resources of every other
\* reconciliation unit as they were.
RouteKindIsolation ==
    [][last'.handler \in {"handle_ingress", "handle_ingress_per_unit",
                          "handle_ingress_auth", "handle_default_gateways"}
       => {res \in cluster : ~OwnedBy(res, last')}
            = {res \in cluster' : ~OwnedBy(res, last')}]_vars

\* C6 (dependent pass after gateway replacement): once a default-gateway
\* pass has replaced the gateways, the shared-ingress routes in the cluster
\* are rendered against the current default gateway.
RoutesFollowGateway ==
    (last.handler = "handle_default_gateways" /\ last.outcome = "returned")
      => \A res \in OwnedRoutes(cluster) :
            res.body[1] = "route" => res.body[2] = config.gateways[1]

\* C7 (per-unit teardown): breaking a per-unit relation whose requester has
\* resources in the cluster runs a delete scoped to that requester, applies
\* nothing, and when the delete succeeds leaves no resource for the requester.
PerUnitTeardown ==
    [][(/\ last'.ev.h = "per_unit_broken"
        /\ \E res \in cluster : ForLabel(last'.ev.req) \in res.labels)
       => (/\ \E k \in CallsOf(last', "delete") :
                 last'.calls[k].selector = {CreatedBy, ForLabel(last'.ev.req)}
           /\ CallsOf(last', "apply") = {}
           /\ (\A k \in CallsOf(last', "delete") : last'.calls[k].ok)
                 => ~\E res \in cluster' : ForLabel(last'.ev.req) \in res.labels)]_vars

\* C8 (ordering determinism): whatever the order of the raw relation data,
\* the fragments a shared-ingress pass renders stand in ascending order of
\* relation id.
OrderingDeterminism ==
    [][(last'.handler = "handle_ingress" /\ ReachedDelete(last'))
       => (/\ Len(last'.doc) = Cardinality(Remaining(last'.ev))
           /\ \A i \in Remaining(last'.ev) :
                 LET before == {k \in Remaining(last'.ev) :
                                  ingress[k].rel < ingress[i].rel}
                 IN  /\ 1 + Cardinality(before) \in DOMAIN last'.doc
                     /\ last'.doc[1 + Cardinality(before)] = Fragment(i))]_vars

\* /a on relation 3 arrives before /b on relation 1; the pass renders /b, /a.
WitnessOrderingDeterminism ==
    /\ ingress = Scenario
    /\ last.handler = "handle_ingress"
    /\ last.outcome = "returned"
    /\ last.doc = <<RenderVirtualService(GetKwargs(config.gateways[1], RouteB)),
                    RenderVirtualService(GetKwargs(config.gateways[1], RouteA))>>

MutationFailureSurfaced ==
    last.handler \in {"handle_ingress", "handle_ingress_auth", "handle_default_gateways"}
      => /\ \A i \in DOMAIN last.calls :
               (last.calls[i].op \in MutatingOps /\ ~last.calls[i].ok)
                  => (i = Len(last.calls) /\ last.outcome = "CalledProcessError")
         /\ Cardinality(CallsOf(last, "delete")) <= 1
         /\ Cardinality(CallsOf(last, "apply")) <= 1
         /\ \A i \in CallsOf(last, "apply") :
               /\ i > 1
               /\ last.calls[i - 1].op = "delete"
               /\ last.calls[i - 1].ok
               /\ ~last.calls[i].ok =>
                     ~\E res \in cluster :
                         /\ res.kind \in last.calls[i - 1].kinds
                         /\ last.calls[i - 1].selector \subseteq res.labels

\* The apply of a shared-ingress pass has failed after its delete succeeded.
WitnessMutationFailureSurfaced ==
    /\ last.handler = "handle_ingress"
    /\ last.outcome = "CalledProcessError"
    /\ Len(last.calls) = 3
    /\ last.calls[2].op = "delete" /\ last.calls[2].ok
    /\ last.calls[3].op = "apply" /\ ~last.calls[3].ok
    /\ last.doc # <<>>

\* C11 (benign delete race on removal): in the remove handler a failed delete
\* call is the last call; the handler returns normally when the call's error
\* output contains "(Unauthorized)" and ends with the call's error when it
\* does not.
BenignDeleteRace ==
    last.handler = "remove" =>
      \A i \in CallsOf(last, "delete") :
         ~last.calls[i].ok =>
            /\ i = Len(last.calls)
            /\ IF \E k \in 1..Len(last.calls[i].stderr) :
                      last.calls[i].stderr[k] = "(Unauthorized)"
               THEN last.outcome = "returned"
               ELSE last.outcome = "CalledProcessError"

\* The label-scoped delete of a remove has failed with "(Unauthorized)" at
\* the end of its error output, the handler has returned, and the charm's
\* resources are still in the cluster.
WitnessBenignDeleteRace ==
    /\ last.handler = "remove"
    /\ last.outcome = "returned"
    /\ Len(last.calls) = 2
    /\ ~last.calls[2].ok
    /\ Len(last.calls[2].stderr) > 1
    /\ last.calls[2].stderr[Len(last.calls[2].stderr)] = "(Unauthorized)"
    /\ \E res \in cluster : res.kind = "gateways"

\* C12 (empty auth set clears): an auth pass over an empty set of
\* declarations whose delete call succeeds does not report waiting, has
\* deleted the auth resources of this application, ends without an error
\* and leaves none of them in the cluster.
EmptyAuthClears ==
    (/\ last.handler = "handle_ingress_auth"
     /\ auth = <<>>
     /\ \A i \in CallsOf(last, "delete") : last.calls[i].ok)
      => /\ status # WaitingAuth
         /\ CallsOf(last, "delete") # {}
         /\ last.outcome = "returned"
         /\ ~\E res \in cluster :
                res.kind \in {"envoyfilters", "rbacconfigs"} /\ CreatedBy \in res.labels

\* C13 (apply only when non-empty): a shared-ingress or per-unit pass that
\* finds the gateway available issues its delete-by-label call and, when the
\* delete succeeds, issues apply exactly when the pass has a descriptor to
\* route (a per-unit pass has its request).
ApplyOnlyWhenNonEmpty ==
    [][(/\ last'.handler \in {"handle_ingress", "handle_ingress_per_unit"}
        /\ Available
        /\ ~GetRaised(last'))
       => (/\ ReachedDelete(last')
           /\ (\A i \in CallsOf(last', "delete") : last'.calls[i].ok)
                 => (CallsOf(last', "apply") # {}
                       <=> (\/ last'.handler = "handle_ingress_per_unit"
                            \/ Remaining(last'.ev) # {})))]_vars

\* C14 (gateway locator resolution): a pass that calls the locator gets the
\* external-hostname override verbatim, with no cluster lookup, when the
\* override is set; otherwise it looks the service up and, when the lookup
\* answers, gets "unavailable" if there is no service or the service has no
\* endpoint, else the endpoint's hostname if it has one, else its IP.  The
\* unavailable cases end the pass without an error, and every pass gets the
\* address of the configuration and cluster state it runs in.
LocatorResolution ==
    [][last'.handler \in {"handle_ingress", "handle_ingress_per_unit"} =>
        LET p == last'
            Got(addr) ==
                /\ ~p.defer
                /\ p.handler = "handle_ingress_per_unit" =>
                      (p.doc # <<>> /\ p.doc[1].body[2] = addr)
            Unavailable ==
                /\ p.defer
                /\ p.outcome = "returned"
                /\ status' = WaitingGateway
        IN  IF config.hostname \notin {None, ""}
            THEN CallsOf(p, "get") = {} /\ Got(config.hostname)
            ELSE /\ CallsOf(p, "get") = {1}
                 /\ p.calls[1].ok =>
                       IF svc = <<>> THEN Unavailable
                       ELSE IF svc[1] = <<>> THEN Unavailable
                       ELSE IF svc[1][1].hostname # None THEN Got(svc[1][1].hostname)
                       ELSE IF svc[1][1].ip # None THEN Got(svc[1][1].ip)
                       ELSE Unavailable]_vars

\* A per-unit pass has got the hostname of an endpoint that has both a
\* hostname and an IP, while the cluster holds the resource an earlier pass
\* rendered for the other requester when the endpoint had an IP only.
WitnessLocatorResolution ==
    /\ last.handler = "handle_ingress_per_unit"
    /\ config.hostname = ""
    /\ svc = Provisioned
    /\ last.outcome = "returned"
    /\ last.doc # <<>>
    /\ last.doc[1].body[2] = "lb.example"
    /\ Range(last.doc) \subseteq cluster
    /\ \E res \in cluster : res.body[1] = "unit" /\ res.body[2] = "10.0.0.1"

\* C15 (default normalization and self-exclusion): every fragment a
\* shared-ingress pass renders comes from a declaration of another
\* application and carries its prefix and service, its namespace if it
\* declared one and the charm's own namespace if not, its rewrite if it
\* declared one and its prefix if not; no declaration of the charm's own
\* application is rendered.
DefaultNormalization ==
    [][(last'.handler = "handle_ingress" /\ ReachedDelete(last'))
       => LET From(b, r) ==
                  /\ b[3] = r.prefix
                  /\ b[6] = r.service
                  /\ b[4] = (IF r.namespace = None THEN "istio-system" ELSE r.namespace)
                  /\ b[5] = (IF r.rewrite = None THEN r.prefix ELSE r.rewrite)
          IN  /\ \A j \in DOMAIN last'.doc :
                    \E i \in DOMAIN ingress :
                       ingress[i].app # "istio-pilot"
                         /\ From(last'.doc[j].body, ingress[i].route)
              /\ \A i \in Remaining(last'.ev) :
                    \E j \in DOMAIN last'.doc :
                       From(last'.doc[j].body, ingress[i].route)
              /\ Len(last'.doc) = Cardinality(Remaining(last'.ev))
              /\ \A j \in DOMAIN last'.doc :
                    last'.doc[j].body[6] # SelfRoute.service]_vars

\* The charm's own data stands between a declaration with neither
\* namespace nor rewrite and one with both; the pass has rendered the first
\* with the charm's namespace and its own prefix, the second as declared.
WitnessDefaultNormalization ==
    /\ last.handler = "handle_ingress"
    /\ last.outcome = "returned"
    /\ Len(ingress) = 3
    /\ ingress[1].route = RouteA
    /\ ingress[2].app = SelfApp
    /\ ingress[3].route = RouteB
    /\ Len(last.doc) = 2
    /\ \E j \in DOMAIN last.doc :
          last.doc[j].body[3] = "/a" /\ last.doc[j].body[4] = ModelName
            /\ last.doc[j].body[5] = "/a"
    /\ \E j \in DOMAIN last.doc :
          last.doc[j].body[4] = "ns-b" /\ last.doc[j].body[5] = "/"

\* The cluster holds what a pass for event ev is to render from the current
\* descriptors of its route-kind.
Applied(ev) ==
    /\ status = Active
    /\ IF ev.h = "ingress"
       THEN {Fragment(i) : i \in Remaining(ev)} \subseteq cluster
       ELSE \E res \in cluster :
               res.kind = "virtualservices" /\ PerUnitSelector(ev.req) \subseteq res.labels

\* C16 (deferred passes eventually apply): when the gateway address stays
\* available from some point on and every cluster call succeeds, an event a
\* shared-ingress or per-unit pass has deferred is re-run, after which the
\* status is active and the cluster holds the resources rendered from the
\* current descriptors of the pass's route-kind.
DeferredEventuallyApplies ==
    \A ev \in DeferrableEvents :
       (<>[]Available) => [](ev \in deferred => <>(ev \notin deferred /\ Applied(ev)))

\* C17 (transport errors block mutation): a dispatch on a leader whose
\* get_interfaces raises leaves the status waiting (no versions listed) or
\* blocked (no compatible versions) with the error's reason, issues no delete
\* and no apply call and leaves the cluster as it was, whatever the event.
TransportErrorsBlockMutation ==
    [][(/\ last' # NoPass
        /\ unit.leader
        /\ unit.error \in {"NoVersionsListed", "NoCompatibleVersions"})
       => (/\ status' = (IF unit.error = "NoVersionsListed"
                         THEN "waiting: " \o unit.reason
                         ELSE "blocked: " \o unit.reason)
           /\ \A i \in DOMAIN last'.calls : last'.calls[i].op \notin MutatingOps
           /\ cluster' = cluster)]_vars

\* The remove event has come to a leader whose relations have no compatible
\* versions, while gateways and auth resources of the charm are in the
\* cluster: the status is blocked and they are still there.
WitnessTransportErrorsBlockMutation ==
    /\ unit.leader
    /\ unit.error = "NoCompatibleVersions"
    /\ last.ev.h = "remove"
    /\ status = "blocked: ingress: no compatible versions"
    /\ \E res \in cluster : res.kind = "gateways" /\ CreatedBy \in res.labels
    /\ \E res \in cluster : res.kind = "envoyfilters" /\ CreatedBy \in res.labels

\* C20 (non-leader units are inert): on a unit that is not the leader no
\* event has a handler, and a dispatch of any event leaves the status
\* waiting for leadership, issues no get, delete or apply call and leaves the
\* cluster as it was.
NonLeaderInert ==
    [][~unit.leader
       => (/\ \A e \in Events : ~Observed(e)
           /\ last' # NoPass
                 => (/\ status' = "waiting: Waiting for leadership"
                     /\ last'.handler = "none"
                     /\ last'.calls = <<>>
                     /\ cluster' = cluster))]_vars

\* The ready event of a per-unit relation has come to a unit that has lost
\* leadership after it had applied resources for that requester.
WitnessNonLeaderInert ==
    /\ ~unit.leader
    /\ last.ev.h = "ingress_per_unit.ready"
    /\ status = WaitingLeadership
    /\ \E res \in cluster : HasFor(res)
    /\ \E res \in cluster : res.kind = "deployments"

\* C18 (per-unit teardown swallows delete failures): the per-unit teardown
\* handler issues one delete scoped to created-by=<this-app>,for=<requester>
\* and nothing else, and returns normally whether the delete succeeds or
\* fails.
TeardownSwallowsFailure ==
    last.handler = "handle_ingress_per_unit_broken" =>
      /\ Len(last.calls) = 1
      /\ last.calls[1].op = "delete"
      /\ last.calls[1].selector = {CreatedBy, ForLabel(last.ev.req)}
      /\ CallsOf(last, "apply") = {}
      /\ last.outcome = "returned"
      /\ ~last.defer

\* The delete of a teardown has failed, the handler has returned and the
\* requester's resource is still in the cluster.
WitnessTeardownSwallowsFailure ==
    /\ last.handler = "handle_ingress_per_unit_broken"
    /\ ~last.calls[1].ok
    /\ last.outcome = "returned"
    /\ \E res \in cluster : ForLabel(last.ev.req) \in res.labels

\* C19 (relation-broken pass completes for every snapshot): a shared-ingress
\* pass for a relation-broken event that finds the gateway available gets to
\* its delete-by-label call, whether or not the broken pair has an entry in
\* the filtered route set, and the exclusion step raises no error.
BrokenPassCompletes ==
    [][(/\ last'.handler = "handle_ingress"
        /\ last'.ev.broken
        /\ Available
        /\ ~GetRaised(last'))
       => (/\ last'.outcome # "KeyError"
           /\ ReachedDelete(last'))]_vars

====
